---- MODULE Spec2Model ----
(***************************************************************************)
(* Model of the photo-organizer repository.                                *)
(*                                                                         *)
(*   findDuplicatePhotos.py : find_duplicate_files (size pass, hash pass)  *)
(*                            and main (argument handling, report).        *)
(*   organizePhotos.py      : generate_unique_filename and the copy loop   *)
(*                            of organize_photos.                          *)
(*                                                                         *)
(* A file is its position in the directory walk; its path is PathOf(i) and *)
(* its content is tree[i], a pair <<byte size, variant>>: two files are    *)
(* byte-identical iff their contents are equal.  A Python dict is a        *)
(* sequence of [k, v] records in insertion order.                          *)
(***************************************************************************)
EXTENDS Integers, Sequences, FiniteSets, TLC

VARIABLES
    pc,                  \* position of the scan command
    dirExists,           \* whether args.directory exists
    tree,                \* os.walk's files, in walk order: tree[i] is the content of file i
    excludeArg,          \* args.exclude as given (<<>>: the option is absent)
    exclude_extensions,  \* main's normalised exclusion list
    walkIdx,             \* next file of the first pass
    size_to_files,       \* dict size -> [file]
    potential_duplicates,\* dict size -> [file], buckets of 2 or more
    hashIdx,             \* next entry of the second pass
    hashFn,              \* the digests the algorithm has produced so far: content -> digest
    hash_to_files,       \* dict digest -> [file]
    hashCalls,           \* the calls of calculate_file_hash made, in order
    duplicates,          \* find_duplicate_files' return value
    stderr,              \* the per-file errors printed
    out,                 \* the report's destination: [dest, lines, closed]
    grpIdx,              \* next group of the report loops
    space_savings,       \* main's running sum
    exitCode,            \* the command's exit status ("running" until it ends)
    org                  \* the organizer's state

scanVars == <<pc, dirExists, tree, excludeArg, exclude_extensions, walkIdx,
              size_to_files, potential_duplicates, hashIdx, hashFn,
              hash_to_files, hashCalls, duplicates, stderr, out, grpIdx,
              space_savings, exitCode>>

vars == <<scanVars, org>>

-----------------------------------------------------------------------------
(* Bounds and the small universes the inputs are drawn from.               *)

MaxFiles == 4

NumDigests == 2

FileSizes == {1000, 2000}

Variants == {1, 2}

\* Two contents of the smaller size, one of the larger.
Contents == {c \in FileSizes \X Variants : c[1] = 1000 \/ c[2] = 1}

Digests == 1..NumDigests

SizeOf(content) == content[1]

-----------------------------------------------------------------------------
(* Strings are sequences of one-character strings.                         *)

DigitChars == <<"0", "1", "2", "3", "4", "5", "6", "7", "8", "9">>

RECURSIVE Decimal(_)
Decimal(n) ==
    IF n < 10 THEN <<DigitChars[n + 1]>>
    ELSE Decimal(n \div 10) \o <<DigitChars[(n % 10) + 1]>>

Uppers == <<"A", "B", "C", "D", "E", "F", "G", "H", "I", "J", "K", "L", "M",
            "N", "O", "P", "Q", "R", "S", "T", "U", "V", "W", "X", "Y", "Z">>

Lowers == <<"a", "b", "c", "d", "e", "f", "g", "h", "i", "j", "k", "l", "m",
            "n", "o", "p", "q", "r", "s", "t", "u", "v", "w", "x", "y", "z">>

LowerChar(ch) ==
    IF \E i \in 1..Len(Uppers) : Uppers[i] = ch
    THEN Lowers[CHOOSE i \in 1..Len(Uppers) : Uppers[i] = ch]
    ELSE ch

Lower(s) == [i \in 1..Len(s) |-> LowerChar(s[i])]

EndsWith(s, suffix) ==
    /\ Len(suffix) <= Len(s)
    /\ SubSeq(s, Len(s) - Len(suffix) + 1, Len(s)) = suffix

StartsWith(s, prefix) ==
    /\ Len(prefix) <= Len(s)
    /\ SubSeq(s, 1, Len(prefix)) = prefix

-----------------------------------------------------------------------------
(* The scanned tree.                                                       *)

Directory == <<"p">>

Suffixes == << <<".", "l">>, <<"l">>, <<".", "L">>, <<".", "d">> >>

FileName(i) == <<"f">> \o Decimal(i) \o Suffixes[((i - 1) % Len(Suffixes)) + 1]

PathOf(i) == Directory \o <<"/">> \o FileName(i)

ExcludeArgs == { <<>>, << <<"L">> >>, << <<".", "l">>, <<"d">> >> }

-----------------------------------------------------------------------------
(* Python dicts, in insertion order.                                       *)

DictKeys(d) == {d[i].k : i \in 1..Len(d)}

DictAppend(d, key, x) ==
    IF key \in DictKeys(d)
    THEN [i \in 1..Len(d) |->
            IF d[i].k = key THEN [k |-> key, v |-> Append(d[i].v, x)] ELSE d[i]]
    ELSE Append(d, [k |-> key, v |-> <<x>>])

MoreThanOne(entry) == Len(entry.v) > 1

RECURSIVE Flatten(_)
Flatten(d) == IF d = <<>> THEN <<>> ELSE Head(d).v \o Flatten(Tail(d))

RECURSIVE SumSeq(_)
SumSeq(s) == IF s = <<>> THEN 0 ELSE Head(s) + SumSeq(Tail(s))

Range(s) == {s[i] : i \in 1..Len(s)}

-----------------------------------------------------------------------------
(* main: argument handling.                                                *)

AddDot(ext) == IF StartsWith(ext, <<".">>) THEN ext ELSE <<".">> \o ext

NormalizeExclude(exts) == [i \in 1..Len(exts) |-> AddDot(exts[i])]

\* Mutant of the exclusion test: the path is not lower-cased.
IsExcludedCaseSensitive(filepath, exts) ==
    /\ exts # <<>>
    /\ \E i \in 1..Len(exts) : EndsWith(filepath, Lower(exts[i]))

IsExcluded(filepath, exts) ==
    /\ exts # <<>>
    /\ \E i \in 1..Len(exts) : EndsWith(Lower(filepath), Lower(exts[i]))

NoOut == [dest |-> "none", lines |-> <<>>, closed |-> FALSE]

OrgIdle == [pc |-> "idle"]

Init ==
    /\ pc = "main"
    /\ dirExists \in BOOLEAN
    /\ \E n \in 0..MaxFiles : tree \in [1..n -> Contents]
    /\ (~dirExists => tree = <<>>)
    /\ excludeArg \in ExcludeArgs
    /\ exclude_extensions = <<>>
    /\ walkIdx = 1
    /\ size_to_files = <<>>
    /\ potential_duplicates = <<>>
    /\ hashIdx = 1
    /\ hashFn = <<>>
    /\ hash_to_files = <<>>
    /\ hashCalls = <<>>
    /\ duplicates = <<>>
    /\ stderr = <<>>
    /\ out = NoOut
    /\ grpIdx = 1
    /\ space_savings = 0
    /\ exitCode = "running"
    /\ org = OrgIdle

Main_ParseArgs ==
    /\ pc = "main"
    /\ exclude_extensions' = NormalizeExclude(excludeArg)
    /\ pc' = "walk"
    /\ UNCHANGED <<dirExists, tree, excludeArg, walkIdx, size_to_files,
                   potential_duplicates, hashIdx, hashFn, hash_to_files,
                   hashCalls, duplicates, stderr, out, grpIdx, space_savings,
                   exitCode, org>>

-----------------------------------------------------------------------------
(* find_duplicate_files, first pass.                                       *)

Walk_Excluded ==
    /\ pc = "walk"
    /\ walkIdx <= Len(tree)
    /\ IsExcluded(PathOf(walkIdx), exclude_extensions)
    /\ walkIdx' = walkIdx + 1
    /\ UNCHANGED <<pc, dirExists, tree, excludeArg, exclude_extensions,
                   size_to_files, potential_duplicates, hashIdx, hashFn,
                   hash_to_files, hashCalls, duplicates, stderr, out, grpIdx,
                   space_savings, exitCode, org>>

Walk_Size ==
    /\ pc = "walk"
    /\ walkIdx <= Len(tree)
    /\ ~IsExcluded(PathOf(walkIdx), exclude_extensions)
    /\ size_to_files' = DictAppend(size_to_files, SizeOf(tree[walkIdx]), walkIdx)
    /\ walkIdx' = walkIdx + 1
    /\ UNCHANGED <<pc, dirExists, tree, excludeArg, exclude_extensions,
                   potential_duplicates, hashIdx, hashFn, hash_to_files,
                   hashCalls, duplicates, stderr, out, grpIdx, space_savings,
                   exitCode, org>>

Walk_SizeError ==
    /\ pc = "walk"
    /\ walkIdx <= Len(tree)
    /\ ~IsExcluded(PathOf(walkIdx), exclude_extensions)
    /\ stderr' = Append(stderr, <<"size", walkIdx>>)
    /\ walkIdx' = walkIdx + 1
    /\ UNCHANGED <<pc, dirExists, tree, excludeArg, exclude_extensions,
                   size_to_files, potential_duplicates, hashIdx, hashFn,
                   hash_to_files, hashCalls, duplicates, out, grpIdx,
                   space_savings, exitCode, org>>

\* Mutants of the size pruning: "> 2" for "> 1", and no pruning at all.
MoreThanTwo(entry) == Len(entry.v) > 2

PruneSizesMoreThanTwo(d) == SelectSeq(d, MoreThanTwo)

PruneSizesKeepAll(d) == d

PruneSizes(d) == SelectSeq(d, MoreThanOne)

Walk_Prune ==
    /\ pc = "walk"
    /\ walkIdx > Len(tree)
    /\ potential_duplicates' = PruneSizes(size_to_files)
    /\ IF potential_duplicates' = <<>>
       THEN /\ duplicates' = <<>>
            /\ pc' = "open"
       ELSE /\ duplicates' = duplicates
            /\ pc' = "hash"
    /\ UNCHANGED <<dirExists, tree, excludeArg, exclude_extensions, walkIdx,
                   size_to_files, hashIdx, hashFn, hash_to_files, hashCalls,
                   stderr, out, grpIdx, space_savings, exitCode, org>>

-----------------------------------------------------------------------------
(* find_duplicate_files, second pass.  calculate_file_hash is a function   *)
(* of the file's content into a finite digest space; hashFn holds the      *)
(* values it has shown so far, and a content hashed again gets the same    *)
(* digest.                                                                 *)

HashTargets == Flatten(potential_duplicates)

DigestsSeen == {hashFn[c] : c \in DOMAIN hashFn}

\* A digest is an opaque value: a content not hashed before either collides
\* with a digest already seen or takes the next unused one.
CanDigest(content, d) ==
    IF content \in DOMAIN hashFn
    THEN hashFn[content] = d
    ELSE d \in DigestsSeen \/ d = Cardinality(DigestsSeen) + 1

Hash_File ==
    /\ pc = "hash"
    /\ hashIdx <= Len(HashTargets)
    /\ LET filepath == HashTargets[hashIdx]
           content == tree[filepath]
       IN \E file_hash \in Digests :
            /\ CanDigest(content, file_hash)
            /\ hashFn' = (content :> file_hash) @@ hashFn
            /\ hash_to_files' = DictAppend(hash_to_files, file_hash, filepath)
            /\ hashCalls' = Append(hashCalls, filepath)
    /\ hashIdx' = hashIdx + 1
    /\ UNCHANGED <<pc, dirExists, tree, excludeArg, exclude_extensions, walkIdx,
                   size_to_files, potential_duplicates, duplicates, stderr,
                   out, grpIdx, space_savings, exitCode, org>>

Hash_Error ==
    /\ pc = "hash"
    /\ hashIdx <= Len(HashTargets)
    /\ hashCalls' = Append(hashCalls, HashTargets[hashIdx])
    /\ stderr' = Append(stderr, <<"hash", HashTargets[hashIdx]>>)
    /\ hashIdx' = hashIdx + 1
    /\ UNCHANGED <<pc, dirExists, tree, excludeArg, exclude_extensions, walkIdx,
                   size_to_files, potential_duplicates, hashFn, hash_to_files,
                   duplicates, out, grpIdx, space_savings, exitCode, org>>

\* Mutant of the final filter: unique files are kept.
FilterUniqueKeepAll(d) == d

FilterUnique(d) == SelectSeq(d, MoreThanOne)

\* find_duplicate_files as a function of the files the walk yields, with no
\* I/O error: both passes, with the digests hashFn holds.
RECURSIVE SizePass(_, _)
SizePass(files, acc) ==
    IF files = <<>> THEN acc
    ELSE SizePass(Tail(files),
                  IF IsExcluded(PathOf(Head(files)), exclude_extensions)
                  THEN acc
                  ELSE DictAppend(acc, SizeOf(tree[Head(files)]), Head(files)))

RECURSIVE HashPass(_, _)
HashPass(files, acc) ==
    IF files = <<>> THEN acc
    ELSE HashPass(Tail(files),
                  DictAppend(acc, hashFn[tree[Head(files)]], Head(files)))

FindDuplicateFiles(files) ==
    FilterUnique(HashPass(Flatten(PruneSizes(SizePass(files, <<>>))), <<>>))

Hash_Filter ==
    /\ pc = "hash"
    /\ hashIdx > Len(HashTargets)
    /\ duplicates' = FilterUnique(hash_to_files)
    /\ pc' = "open"
    /\ UNCHANGED <<dirExists, tree, excludeArg, exclude_extensions, walkIdx,
                   size_to_files, potential_duplicates, hashIdx, hashFn,
                   hash_to_files, hashCalls, stderr, out, grpIdx,
                   space_savings, exitCode, org>>

-----------------------------------------------------------------------------
(* main: the report.  An exception nothing catches ends the command with a *)
(* traceback and exit status 1; whatever was printed before it stays in    *)
(* the destination, and the destination is not closed by main.             *)

Destinations == {"stdout", "file"}

Crash(cause) ==
    /\ stderr' = Append(stderr, <<"traceback", cause>>)
    /\ exitCode' = 1
    /\ pc' = "done"

Main_OpenError ==
    /\ pc = "open"
    /\ out' = [dest |-> "file", lines |-> <<>>, closed |-> FALSE]
    /\ Crash("open")
    /\ UNCHANGED <<dirExists, tree, excludeArg, exclude_extensions, walkIdx,
                   size_to_files, potential_duplicates, hashIdx, hashFn,
                   hash_to_files, hashCalls, duplicates, grpIdx,
                   space_savings, org>>

Main_NoDuplicates ==
    /\ pc = "open"
    /\ duplicates = <<>>
    /\ \E dest \in Destinations :
         out' = [dest |-> dest,
                 lines |-> << [kind |-> "No duplicate files found."] >>,
                 closed |-> (dest = "file")]
    /\ exitCode' = 0
    /\ pc' = "done"
    /\ UNCHANGED <<dirExists, tree, excludeArg, exclude_extensions, walkIdx,
                   size_to_files, potential_duplicates, hashIdx, hashFn,
                   hash_to_files, hashCalls, duplicates, stderr, grpIdx,
                   space_savings, org>>

DuplicateCount(groups) ==
    SumSeq([i \in 1..Len(groups) |-> Len(groups[i].v)]) - Len(groups)

Main_Header ==
    /\ pc = "open"
    /\ duplicates # <<>>
    /\ \E dest \in Destinations :
         out' = [dest |-> dest,
                 lines |-> << [kind |-> "Found", count |-> DuplicateCount(duplicates),
                             groups |-> Len(duplicates)] >>,
                 closed |-> FALSE]
    /\ space_savings' = 0
    /\ grpIdx' = 1
    /\ pc' = "savings"
    /\ UNCHANGED <<dirExists, tree, excludeArg, exclude_extensions, walkIdx,
                   size_to_files, potential_duplicates, hashIdx, hashFn,
                   hash_to_files, hashCalls, duplicates, stderr, exitCode, org>>

GroupSavings(file_list, file_size) == (Len(file_list) - 1) * file_size

Main_Savings ==
    /\ pc = "savings"
    /\ grpIdx <= Len(duplicates)
    /\ LET file_list == duplicates[grpIdx].v
           file_size == SizeOf(tree[file_list[1]])
       IN space_savings' = space_savings + GroupSavings(file_list, file_size)
    /\ grpIdx' = grpIdx + 1
    /\ UNCHANGED <<pc, dirExists, tree, excludeArg, exclude_extensions, walkIdx,
                   size_to_files, potential_duplicates, hashIdx, hashFn,
                   hash_to_files, hashCalls, duplicates, stderr, out, exitCode,
                   org>>

Main_SavingsError ==
    /\ pc = "savings"
    /\ grpIdx <= Len(duplicates)
    /\ Crash("getsize")
    /\ UNCHANGED <<dirExists, tree, excludeArg, exclude_extensions, walkIdx,
                   size_to_files, potential_duplicates, hashIdx, hashFn,
                   hash_to_files, hashCalls, duplicates, out, grpIdx,
                   space_savings, org>>

Main_WriteSavings ==
    /\ pc = "savings"
    /\ grpIdx > Len(duplicates)
    /\ out' = [out EXCEPT !.lines = 
                 Append(@, [kind |-> "Potential space savings", bytes |-> space_savings])]
    /\ grpIdx' = 1
    /\ pc' = "groups"
    /\ UNCHANGED <<dirExists, tree, excludeArg, exclude_extensions, walkIdx,
                   size_to_files, potential_duplicates, hashIdx, hashFn,
                   hash_to_files, hashCalls, duplicates, stderr, space_savings,
                   exitCode, org>>

Main_Group ==
    /\ pc = "groups"
    /\ grpIdx <= Len(duplicates)
    /\ LET file_hash == duplicates[grpIdx].k
           file_list == duplicates[grpIdx].v
           size == SizeOf(tree[file_list[1]])
       IN out' = [out EXCEPT !.lines =
                 Append(@, [kind |-> "Duplicate files", hash |-> file_hash,
                            size |-> size, files |-> file_list])]
    /\ grpIdx' = grpIdx + 1
    /\ UNCHANGED <<pc, dirExists, tree, excludeArg, exclude_extensions, walkIdx,
                   size_to_files, potential_duplicates, hashIdx, hashFn,
                   hash_to_files, hashCalls, duplicates, stderr, space_savings,
                   exitCode, org>>

Main_GroupError ==
    /\ pc = "groups"
    /\ grpIdx <= Len(duplicates)
    /\ Crash("getsize")
    /\ UNCHANGED <<dirExists, tree, excludeArg, exclude_extensions, walkIdx,
                   size_to_files, potential_duplicates, hashIdx, hashFn,
                   hash_to_files, hashCalls, duplicates, out, grpIdx,
                   space_savings, org>>

Main_Finish ==
    /\ pc = "groups"
    /\ grpIdx > Len(duplicates)
    /\ out' = [out EXCEPT !.closed = (out.dest = "file")]
    /\ exitCode' = 0
    /\ pc' = "done"
    /\ UNCHANGED <<dirExists, tree, excludeArg, exclude_extensions, walkIdx,
                   size_to_files, potential_duplicates, hashIdx, hashFn,
                   hash_to_files, hashCalls, duplicates, stderr, grpIdx,
                   space_savings, org>>

Next ==
    \/ Main_ParseArgs
    \/ Walk_Excluded
    \/ Walk_Size
    \/ Walk_SizeError
    \/ Walk_Prune
    \/ Hash_File
    \/ Hash_Error
    \/ Hash_Filter
    \/ Main_OpenError
    \/ Main_NoDuplicates
    \/ Main_Header
    \/ Main_Savings
    \/ Main_SavingsError
    \/ Main_WriteSavings
    \/ Main_Group
    \/ Main_GroupError
    \/ Main_Finish

Spec == Init /\ [][Next]_vars

-----------------------------------------------------------------------------
(* organizePhotos.py: organize_photos and generate_unique_filename.  The   *)
(* walk hands over one source file per step: its filename, the digest      *)
(* calculate_file_hash gives it and the year get_photo_year infers (or     *)
(* none).  org.dest maps a destination folder to the filenames in it, and  *)
(* org.lastCopy records the latest shutil.copy2: the folder, the name      *)
(* written, the source filename and the folder's content just before.      *)

MaxSource == 3

PhotoExtensions ==
    { <<".", "j", "p", "g">>, <<".", "j", "p", "e", "g">>, <<".", "p", "n", "g">>,
      <<".", "g", "i", "f">>, <<".", "t", "i", "f", "f">>, <<".", "b", "m", "p">>,
      <<".", "r", "a", "w">>, <<".", "h", "e", "i", "c">>, <<".", "C", "R", "2">> }

SourceNames ==
    { <<"a", ".", "j", "p", "g">>,
      <<"a", ".", "J", "P", "G">>,
      <<"a", "_", "(", "2", ")", ".", "j", "p", "g">>,
      <<"n", ".", "t", "x", "t">> }

PreExisting ==
    { <<"a", ".", "j", "p", "g">>, <<"a", "_", "(", "2", ")", ".", "j", "p", "g">> }

Years == {"2020", "2021"}

Folders == Years \cup {"unknown"}

\* os.path.splitext: the extension starts at the last dot, unless only dots
\* precede it.
LastDot(p) ==
    IF \E i \in 1..Len(p) : p[i] = "."
    THEN CHOOSE i \in 1..Len(p) : p[i] = "." /\ \A j \in (i + 1)..Len(p) : p[j] # "."
    ELSE 0

Splitext(p) ==
    LET dotIndex == LastDot(p)
    IN IF dotIndex > 0 /\ \E j \in 1..(dotIndex - 1) : p[j] # "."
       THEN [name |-> SubSeq(p, 1, dotIndex - 1), ext |-> SubSeq(p, dotIndex, Len(p))]
       ELSE [name |-> p, ext |-> <<>>]

Numbered(original_filename, counter) ==
    LET parts == Splitext(original_filename)
    IN parts.name \o <<"_", "(">> \o Decimal(counter) \o <<")">> \o parts.ext

RECURSIVE UniqueFrom(_, _, _)
UniqueFrom(existing, original_filename, counter) ==
    LET new_filename == IF counter = 1 THEN original_filename
                        ELSE Numbered(original_filename, counter)
    IN IF new_filename \notin existing THEN new_filename
       ELSE UniqueFrom(existing, original_filename, counter + 1)

\* Mutant of generate_unique_filename: the loop stops at counter 2 without
\* testing that the numbered name is unused.
UniqueSkippingCheck(existing, original_filename) ==
    IF original_filename \notin existing THEN original_filename
    ELSE Numbered(original_filename, 2)

generate_unique_filename(existing, original_filename) ==
    UniqueFrom(existing, original_filename, 1)

IsPhoto(filename) == Lower(Splitext(filename).ext) \in PhotoExtensions

NoCopy == [dir |-> "none", name |-> <<>>, original |-> <<>>, before |-> {}]

ScanIdle ==
    /\ pc = "idle"
    /\ dirExists = FALSE
    /\ tree = <<>>
    /\ excludeArg = <<>>
    /\ exclude_extensions = <<>>
    /\ walkIdx = 1
    /\ size_to_files = <<>>
    /\ potential_duplicates = <<>>
    /\ hashIdx = 1
    /\ hashFn = <<>>
    /\ hash_to_files = <<>>
    /\ hashCalls = <<>>
    /\ duplicates = <<>>
    /\ stderr = <<>>
    /\ out = NoOut
    /\ grpIdx = 1
    /\ space_savings = 0
    /\ exitCode = "running"

InitOrganize ==
    /\ ScanIdle
    /\ \E skip \in BOOLEAN, srcExists \in BOOLEAN,
          pre \in [{"2020"} -> SUBSET PreExisting] :
         org = [pc |-> "start",
                skip_duplicates |-> skip,
                sourceExists |-> srcExists,
                walked |-> 0,
                dest |-> [d \in Folders |-> IF d \in DOMAIN pre THEN pre[d] ELSE {}],
                processed_file_hashes |-> {},
                total_processed |-> 0,
                successfully_dated |-> 0,
                undated |-> 0,
                duplicates_skipped |-> 0,
                lastCopy |-> NoCopy]

Org_Start ==
    /\ org.pc = "start"
    /\ org' = [org EXCEPT !.pc = IF org.sourceExists THEN "walk" ELSE "done"]
    /\ UNCHANGED scanVars

Org_NotPhoto ==
    /\ org.pc = "walk"
    /\ org.walked < MaxSource
    /\ \E filename \in SourceNames :
         /\ ~IsPhoto(filename)
         /\ org' = [org EXCEPT !.walked = @ + 1]
    /\ UNCHANGED scanVars

Org_SkipDuplicate ==
    /\ org.pc = "walk"
    /\ org.walked < MaxSource
    /\ \E filename \in SourceNames, file_hash \in Digests :
         /\ IsPhoto(filename)
         /\ org.skip_duplicates /\ file_hash \in org.processed_file_hashes
         /\ org' = [org EXCEPT !.walked = @ + 1,
                               !.total_processed = @ + 1,
                               !.duplicates_skipped = @ + 1]
    /\ UNCHANGED scanVars

CopyInto(folder, filename, file_hash) ==
    LET unique_filename == generate_unique_filename(org.dest[folder], filename)
    IN [org EXCEPT !.walked = @ + 1,
                   !.total_processed = @ + 1,
                   !.dest[folder] = @ \cup {unique_filename},
                   !.processed_file_hashes = @ \cup {file_hash},
                   !.lastCopy = [dir |-> folder, name |-> unique_filename,
                                 original |-> filename, before |-> org.dest[folder]]]

Org_CopyDated ==
    /\ org.pc = "walk"
    /\ org.walked < MaxSource
    /\ \E filename \in SourceNames, file_hash \in Digests, photo_year \in Years :
         /\ IsPhoto(filename)
         /\ ~(org.skip_duplicates /\ file_hash \in org.processed_file_hashes)
         /\ org' = [CopyInto(photo_year, filename, file_hash)
                      EXCEPT !.successfully_dated = @ + 1]
    /\ UNCHANGED scanVars

Org_CopyUnknown ==
    /\ org.pc = "walk"
    /\ org.walked < MaxSource
    /\ \E filename \in SourceNames, file_hash \in Digests :
         /\ IsPhoto(filename)
         /\ ~(org.skip_duplicates /\ file_hash \in org.processed_file_hashes)
         /\ org' = [CopyInto("unknown", filename, file_hash)
                      EXCEPT !.undated = @ + 1]
    /\ UNCHANGED scanVars

Org_Summary ==
    /\ org.pc = "walk"
    /\ org' = [org EXCEPT !.pc = "done"]
    /\ UNCHANGED scanVars

NextOrganize ==
    \/ Org_Start
    \/ Org_NotPhoto
    \/ Org_SkipDuplicate
    \/ Org_CopyDated
    \/ Org_CopyUnknown
    \/ Org_Summary

SpecOrganize == InitOrganize /\ [][NextOrganize]_vars

-----------------------------------------------------------------------------
(* Vocabulary of the properties.                                           *)

Files == 1..Len(tree)

\* find_duplicate_files has returned
Returned == pc \in {"open", "savings", "groups", "done"}

Members(group) == Range(group.v)

GroupSets(groups) == {Members(groups[i]) : i \in 1..Len(groups)}

InSomeGroup(f) == \E i \in 1..Len(duplicates) : f \in Members(duplicates[i])

Recorded(f) == \E i \in 1..Len(size_to_files) : f \in Members(size_to_files[i])

RecordedSize(f) ==
    size_to_files[CHOOSE i \in 1..Len(size_to_files) : f \in Members(size_to_files[i])].k

\* a size lookup or a hashing of f failed inside find_duplicate_files
Failed(f) == <<"size", f>> \in Range(stderr) \/ <<"hash", f>> \in Range(stderr)

Traceback == \E e \in Range(stderr) : e[1] = "traceback"

\* the exclusion rule as the command line states it
ExcludedByArg(f) ==
    \E i \in 1..Len(excludeArg) :
        LET ext == excludeArg[i]
            dotted == IF ext[1] = "." THEN ext ELSE <<".">> \o ext
        IN EndsWith(Lower(PathOf(f)), Lower(dotted))

SameBytes(a, b) == a # b /\ tree[a] = tree[b]

\* a and b are together in exactly one group, listed once, and in no other
TogetherInOneGroup(a, b) ==
    /\ \E i \in 1..Len(duplicates) : {a, b} \subseteq Members(duplicates[i])
    /\ \A i, j \in 1..Len(duplicates) :
          (Members(duplicates[i]) \cap {a, b} # {} /\
           Members(duplicates[j]) \cap {a, b} # {}) => i = j
    /\ \A i \in 1..Len(duplicates) :
          \A m, n \in 1..Len(duplicates[i].v) :
              (duplicates[i].v[m] = duplicates[i].v[n]) => m = n

\* the files of S in walk order
SeqOfFiles(S) == SelectSeq([i \in 1..Len(tree) |-> i], LAMBDA f : f \in S)

\* the report main prints when nothing fails
CompleteReport ==
    \/ /\ Len(out.lines) = 1
       /\ out.lines[1].kind = "No duplicate files found."
       /\ duplicates = <<>>
    \/ /\ Len(out.lines) = 2 + Len(duplicates)
       /\ out.lines[1].kind = "Found"
       /\ out.lines[2].kind = "Potential space savings"
       /\ \A i \in 1..Len(duplicates) : 
            /\ out.lines[2 + i].kind = "Duplicate files"
            /\ out.lines[2 + i].hash = duplicates[i].k
            /\ out.lines[2 + i].files = duplicates[i].v

\* the reclaimable-bytes line of the report
SavingsWritten == \E i \in 1..Len(out.lines) : out.lines[i].kind = "Potential space savings"

SavingsLine ==
    out.lines[CHOOSE i \in 1..Len(out.lines) :
                 out.lines[i].kind = "Potential space savings"].bytes

SizesIn(group) == {SizeOf(tree[f]) : f \in Members(group)}

\* name_(n) plus the extension
NumberedName(original, n) ==
    Splitext(original).name \o <<"_", "(">> \o Decimal(n) \o <<")">> \o Splitext(original).ext

-----------------------------------------------------------------------------
\* C1: every member of a returned duplicate group has the same recorded byte
\* size; two files of different sizes never share a group.
C1_GroupsShareSize ==
    Returned =>
        \A i \in 1..Len(duplicates) :
            \A a, b \in Members(duplicates[i]) : RecordedSize(a) = RecordedSize(b)

\* C2 as stated: every pair of byte-identical files not excluded by extension
\* is together in exactly one group, and neither is in any other group.
C2_Completeness ==
    Returned =>
        \A a, b \in Files :
            (SameBytes(a, b) /\ ~ExcludedByArg(a) /\ ~ExcludedByArg(b))
                => TogetherInOneGroup(a, b)

\* C2 amended: every pair of byte-identical files the walk yields that are
\* not excluded by extension, and neither of which had its size lookup or its
\* hashing fail, is together in exactly one group, and neither is in any other
\* group.
C2_CompletenessOfReadable ==
    Returned =>
        \A a, b \in Files :
            (SameBytes(a, b) /\ ~ExcludedByArg(a) /\ ~ExcludedByArg(b)
                /\ ~Failed(a) /\ ~Failed(b))
                => TogetherInOneGroup(a, b)

C2_Witness ==
    /\ Returned
    /\ \E a, b, c \in Files :
          /\ SameBytes(a, b) /\ SameBytes(a, c) /\ b # c
          /\ ~Failed(a) /\ ~Failed(b) /\ Failed(c)
          /\ InSomeGroup(a) /\ InSomeGroup(b)

\* C3: with any per-file I/O errors the scan returns, the failing files are in
\* no group, the groups are those of the same tree without the failing files,
\* and the command ends with the exit status it would have had without them.
C3_FailureIsolation ==
    /\ (pc \in {"walk", "hash"}) => exitCode = "running"
    /\ Returned =>
          /\ \A f \in Files : Failed(f) => ~InSomeGroup(f)
          /\ GroupSets(duplicates) =
               GroupSets(FindDuplicateFiles(SeqOfFiles({f \in Files : ~Failed(f)})))
    /\ (pc = "done" /\ out.lines # <<>>) => exitCode = 0

\* C4: when the root directory does not exist the command ends with a
\* non-zero exit status and reports no "no duplicates" result.
C4_MissingRootFails ==
    (pc = "done" /\ ~dirExists) =>
        (exitCode # 0 /\ \A i \in 1..Len(out.lines) :
                            out.lines[i].kind # "No duplicate files found.")

\* C5: when main ends, either the complete report is in the destination (and
\* a file destination is closed), or an error was shown and nothing of the
\* report was written.
C5_NoPartialReport ==
    pc = "done" =>
        \/ CompleteReport /\ (out.dest = "file" => out.closed)
        \/ Traceback /\ out.lines = <<>>

\* C6: a file whose path ends, ignoring case, with an exclusion string (a dot
\* prepended where --exclude gave none) is never in a duplicate group; two
\* byte-identical files of which one is excluded give no group.
C6_ExcludedNeverGrouped ==
    /\ \A f \in Files : ExcludedByArg(f) => (~InSomeGroup(f) /\ ~Recorded(f))
    /\ (Returned /\ Len(tree) = 2 /\ tree[1] = tree[2]
          /\ (ExcludedByArg(1) \/ ExcludedByArg(2)))
            => duplicates = <<>>

C6_Witness ==
    /\ pc = "done"
    /\ duplicates # <<>>
    /\ \E f, g \in Files :
          /\ ExcludedByArg(f) /\ ~ExcludedByArg(g) /\ SameBytes(f, g)
          /\ InSomeGroup(g)
          /\ Lower(PathOf(f)) # PathOf(f)

\* C7: the reclaimable-bytes figure is the sum over the groups of
\* (members - 1) times the byte size the members share; it is 1000 for three
\* files of 1000 bytes of which exactly two are byte-identical.
C7_ReclaimableSpace ==
    SavingsWritten =>
        /\ \A i \in 1..Len(duplicates) : Cardinality(SizesIn(duplicates[i])) = 1
        /\ \A pick \in [1..Len(duplicates) -> Files] :
              (\A i \in 1..Len(duplicates) : pick[i] \in Members(duplicates[i]))
                => SavingsLine = SumSeq([i \in 1..Len(duplicates) |->
                        (Len(duplicates[i].v) - 1) * SizeOf(tree[pick[i]])])
        /\ (/\ Len(tree) = 3
            /\ \A f \in Files : SizeOf(tree[f]) = 1000 /\ Recorded(f) /\ ~Failed(f)
            /\ Cardinality({tree[f] : f \in Files}) = 2)
              => SavingsLine = 1000

\* C8: no returned group has fewer than two members.
C8_NoSingletonGroups ==
    \A i \in 1..Len(duplicates) : Len(duplicates[i].v) >= 2

C8_Witness ==
    /\ Returned
    /\ \E i \in 1..Len(hash_to_files) :
          /\ Len(hash_to_files[i].v) = 1
          /\ \E f \in Files :
                /\ <<"hash", f>> \in Range(stderr)
                /\ SameBytes(f, hash_to_files[i].v[1])
          /\ hash_to_files[i].k \notin DictKeys(duplicates)
    /\ duplicates # <<>>

\* C10: no file is hashed before the walk has enumerated the whole tree;
\* calculate_file_hash is called only on files whose recorded size another
\* recorded file shares, and at most once per file.
C10_PruneBeforeHash ==
    /\ hashCalls # <<>> => walkIdx > Len(tree)
    /\ \A i \in 1..Len(hashCalls) :
          /\ Recorded(hashCalls[i])
          /\ \E g \in Files :
                /\ g # hashCalls[i]
                /\ Recorded(g)
                /\ RecordedSize(g) = RecordedSize(hashCalls[i])
    /\ \A i, j \in 1..Len(hashCalls) : hashCalls[i] = hashCalls[j] => i = j

C10_Witness ==
    /\ pc = "open"
    /\ hashCalls # <<>>
    /\ \E f \in Files : Recorded(f) /\ f \notin Range(hashCalls)
    /\ \E f \in Files : <<"size", f>> \in Range(stderr)

-----------------------------------------------------------------------------
(* Supporting facts: how far C1 and C3 hold.                               *)

CrossSizeCollision ==
    \E a, b \in DOMAIN hashFn : SizeOf(a) # SizeOf(b) /\ hashFn[a] = hashFn[b]

\* Groups share one size whenever no two hashed contents of different sizes
\* have the same digest.
GroupsShareSizeWithoutCollision ==
    (Returned /\ ~CrossSizeCollision) =>
        \A i \in 1..Len(duplicates) :
            \A a, b \in Members(duplicates[i]) : RecordedSize(a) = RecordedSize(b)

\* Inside find_duplicate_files the per-file errors are isolated: the scan
\* returns, no failing file is in a group, and without a cross-size digest
\* collision the groups are those of the tree without the failing files.
ScanIsolatesFailures ==
    /\ (pc \in {"walk", "hash"}) => exitCode = "running"
    /\ Returned => \A f \in Files : Failed(f) => ~InSomeGroup(f)
    /\ (Returned /\ ~CrossSizeCollision) =>
          GroupSets(duplicates) =
            GroupSets(FindDuplicateFiles(SeqOfFiles({f \in Files : ~Failed(f)})))

-----------------------------------------------------------------------------
\* C9: every copy organize_photos makes goes to a path that did not exist
\* just before it, so nothing in the destination folder is overwritten; the
\* name is the original filename when it is unused, and otherwise
\* name_(n) plus the original extension for the smallest n >= 2 that is unused.
C9_CollisionFreeCopy ==
    org.lastCopy.dir # "none" =>
        LET c == org.lastCopy
        IN /\ c.name \notin c.before
           /\ org.dest[c.dir] = c.before \cup {c.name}
           /\ c.original \notin c.before => c.name = c.original
           /\ c.original \in c.before =>
                \E n \in 2..(Cardinality(c.before) + 1) :
                    /\ c.name = NumberedName(c.original, n)
                    /\ \A m \in 2..(n - 1) : NumberedName(c.original, m) \in c.before

C9_Witness ==
    /\ org.lastCopy.dir # "none"
    /\ org.lastCopy.name = NumberedName(org.lastCopy.original, 3)
    /\ org.lastCopy.original \in org.lastCopy.before
    /\ \E f \in org.lastCopy.before : f \notin PreExisting

====
